---- MODULE Spec2Model ----
(***************************************************************************)
(* Model of arcgis_corporate.py: GetData (download a layer or table of a   *)
(* form), UploadToPortal (overwrite a portal item) and GetPhotos           *)
(* (incremental attachment download driven by log_photos.json).            *)
(***************************************************************************)
EXTENDS Integers, Sequences, FiniteSets, TLC

VARIABLES
    remote,               \* portal: layer/table name -> its features, ascending objectid
    log_file,             \* log_photos.json: whether it exists, and its rows
    files,                \* local disk: path -> content of the file at that path
    folders,              \* local disk: the directories os.makedirs created
    pc,                   \* position of get_photos: idle, layer, feature, attachment, persist
    id_form,              \* self.id_form of the GetPhotos object of the current run
    max_oid,              \* get_photos: max_oid
    df_log_previous,      \* get_photos: df_log_previous
    new_objects_control,  \* get_photos: new_objects_control, as a sequence of rows
    indice_fs,            \* get_photos: position in rel_fs (1-based)
    features,             \* get_photos: feature_object_ids.features
    indice,               \* get_photos: position in features (1-based)
    attachments,          \* get_photos: object_oid_attachments
    k,                    \* get_photos: position in object_oid_attachments (1-based)
    printed,              \* the last message printed by the step just taken
    hist,                 \* observation record of the runs (not program state)
    gd,                   \* the GetData object: survey_by_id, prefix
    gd_call,              \* the last GetData call: method, arguments, outcome
    csv_files,            \* save_directory of GetData: file name -> table written
    portal_items,         \* portal content catalog: item -> title, type, data
    upload_directory,     \* upload_directory of UploadToPortal: file name -> data
    up_call               \* the last upload_to_portal call: arguments, outcome

vars == <<remote, log_file, files, folders, pc, id_form, max_oid, df_log_previous,
          new_objects_control, indice_fs, features, indice, attachments, k,
          printed, hist, gd, gd_call, csv_files, portal_items, upload_directory,
          up_call>>

photovars == <<log_file, files, folders, pc, id_form, max_oid, df_log_previous,
               new_objects_control, indice_fs, features, indice, attachments, k,
               printed>>

datavars == <<gd, gd_call, csv_files>>

uploadvars == <<portal_items, upload_directory, up_call>>

runvars == <<id_form, max_oid, df_log_previous, new_objects_control, indice_fs,
             features, indice, attachments, k>>

-----------------------------------------------------------------------------
(* Bounds of the model *)

MaxOid == 2            \* largest objectid a layer or table hands out
MaxRecords == 2        \* most records submitted to the form in all

-----------------------------------------------------------------------------
(* The portal content *)

NoFile == [exists |-> FALSE, rows |-> <<>>]

\* pd.read_json / to_json keep objectid as integers and created_date, id_form and
\* local as the strings written (created_date is not a column read_json parses
\* as a date), so a row read is the row that was written.
LogFile(rows) == [exists |-> TRUE, rows |-> rows]
None == "None"

\* The forms of the portal: f1 has two layers and one related table, f2 has
\* neither; any other id does not resolve (content.get returns None).
FormIds == {"f1", "f2", "nope"}

FormLayers(f) == IF f = "f1" THEN <<"L1", "L2">> ELSE <<>>

FormTables(f) == IF f = "f1" THEN <<"T1">> ELSE <<>>

AllFs == {"L1", "L2", "T1"}

\* fs.properties.hasAttachments
hasAttachments(fs) == fs \in {"L1", "T1"}

\* gis_login.content.get(id_form)
ContentGet(f) == IF f \in {"f1", "f2"} THEN f ELSE None

\* survey_by_id.layers + survey_by_id.tables
RelFs(f) == FormLayers(f) \o FormTables(f)

-----------------------------------------------------------------------------
(* Sequences *)

RECURSIVE SeqMax(_)
SeqMax(s) == IF Len(s) = 1 THEN s[1]
             ELSE LET m == SeqMax(Tail(s)) IN IF s[1] > m THEN s[1] ELSE m

IsPrefix(s, t) == Len(s) <= Len(t) /\ SubSeq(t, 1, Len(s)) = s

Range(s) == {s[i] : i \in DOMAIN s}

RECURSIVE SumLen(_, _)
SumLen(f, S) == IF S = {} THEN 0
                ELSE LET x == CHOOSE y \in S : TRUE
                     IN Len(f[x]) + SumLen(f, S \ {x})

-----------------------------------------------------------------------------
(* Dates, folders and file names *)

MsPerDay == 86400000
MsPerSecond == 1000

\* datetime.utcfromtimestamp(created_date/1000).strftime("%y-%m-%d"): the UTC day
folder_date(created_date) == "day" \o ToString(created_date \div MsPerDay)

\* pd.to_datetime(unit='ms') then strftime('%d/%m/%Y %H:%M:%S'): the UTC second
FormatCreatedDate(created_date) == "sec" \o ToString(created_date \div MsPerSecond)

\* A path is the sequence of the pieces of its text.
save_directory == <<"./photos/">>
folder_name == <<"survey/">>

\* os.path.join(self.save_directory, self.folder_name, folder_date)
FinalFolder(created_date) ==
    save_directory \o folder_name \o <<folder_date(created_date) \o "/">>

OidSuffix(oid) == "-oid_" \o ToString(oid)

\* str.replace('.jpg', f'-oid_{object_oid}.jpg'): every occurrence of the piece
\* ".jpg" in the whole path is replaced, no other piece is.
RECURSIVE FinalFilename(_, _)
FinalFilename(path, oid) ==
    IF path = <<>> THEN <<>>
    ELSE (IF Head(path) = ".jpg" THEN <<OidSuffix(oid), ".jpg">> ELSE <<Head(path)>>)
         \o FinalFilename(Tail(path), oid)

\* fs.attachments.download(oid, attachment_id, save_path): the file is written
\* under the attachment's own name in save_path, over any file of that name.
DownloadPath(final_folder, name) == final_folder \o name

WriteFile(fsys, path, content) ==
    [p \in DOMAIN fsys \cup {path} |-> IF p = path THEN content ELSE fsys[p]]

\* os.rename(src, dst)
OsRename(fsys, src, dst) ==
    [p \in (DOMAIN fsys \ {src}) \cup {dst} |-> IF p = dst THEN fsys[src] ELSE fsys[p]]

\* os.path.exists(path)
PathExists(fsys, path) == path \in DOMAIN fsys

-----------------------------------------------------------------------------
(* What the portal may hold *)

\* The records a surveyor may submit: creation time (ms since the epoch) and the
\* names of the attached files, in attachment order.
Submissions ==
    { [created_date |-> 1500, atts |-> <<>>],
      [created_date |-> 1500, atts |-> << <<"a", ".jpg">> >>],
      [created_date |-> MsPerDay + 2500, atts |-> << <<"a", ".png">>, <<"a", ".jpg">> >>] }

LastOid(fs) == IF remote[fs] = <<>> THEN 0 ELSE remote[fs][Len(remote[fs])].objectid

Oids(feats) == {feats[i].objectid : i \in DOMAIN feats}

-----------------------------------------------------------------------------
(* GetPhotos.get_photos *)

NaN == -1   \* Series.max() of a log without rows

ObjectIds(log) == [i \in DOMAIN log |-> log[i].objectid]

\* Mutant of LoadMaxOid: the objectid of the last row instead of the greatest.
LoadMaxOid_LastRow(log) ==
    IF log.exists = FALSE THEN 0
    ELSE IF log.rows = <<>> THEN NaN
    ELSE log.rows[Len(log.rows)].objectid

\* if os.path.exists(log_file): max_oid = df_log_previous['objectid'].max()
\* else: max_oid = 0
LoadMaxOid(log) ==
    IF log.exists = FALSE THEN 0
    ELSE IF log.rows = <<>> THEN NaN
    ELSE SeqMax(ObjectIds(log.rows))

\* Mutant of Where: the bound itself is let through.
Where_Inclusive(objectid, bound) == objectid >= bound

\* where = f'objectid > {max_oid}'
Where(objectid, bound) == objectid > bound

\* fs.query(out_fields="created_date", where=..., order_by_fields='objectid ASC')
Query(fs, bound) ==
    LET hit == SelectSeq(remote[fs], LAMBDA r : Where(r.objectid, bound))
    IN [i \in DOMAIN hit |->
            [objectid |-> hit[i].objectid, created_date |-> hit[i].created_date]]

\* fs.attachments.get_list(oid=object_oid)
GetList(fs, oid) ==
    LET i == CHOOSE j \in DOMAIN remote[fs] : remote[fs][j].objectid = oid
    IN remote[fs][i].atts

\* The next position at or after i of rel_fs whose layer/table has attachments
\* (for indice_fs, fs in enumerate(rel_fs): if fs.properties.hasAttachments).
RECURSIVE NextWithAttachments(_, _)
NextWithAttachments(rel_fs, i) ==
    IF i > Len(rel_fs) \/ hasAttachments(rel_fs[i]) THEN i
    ELSE NextWithAttachments(rel_fs, i + 1)

IdleLocals ==
    /\ id_form = None
    /\ max_oid = 0
    /\ df_log_previous = <<>>
    /\ new_objects_control = <<>>
    /\ indice_fs = 0
    /\ features = <<>>
    /\ indice = 0
    /\ attachments = <<>>
    /\ k = 0

\* get_photos returns or raises: its locals are gone
DropLocals ==
    /\ id_form' = None
    /\ max_oid' = 0
    /\ df_log_previous' = <<>>
    /\ new_objects_control' = <<>>
    /\ indice_fs' = 0
    /\ features' = <<>>
    /\ indice' = 0
    /\ attachments' = <<>>
    /\ k' = 0

HistInit ==
    [start_log |-> NoFile,   \* log_file as the run in progress or just completed found it
     queries   |-> {},       \* the queries made so far by the run in progress
     processed |-> {},       \* <<fs, objectid>> processed so far by the run in progress
     downloads |-> 0,        \* attachments downloaded so far by the run in progress
     outcome   |-> "none",   \* the last run: none, running, completed, aborted
     form      |-> None,     \* id_form of the run in progress or just completed
     changed   |-> FALSE,    \* a record was submitted since that run started
     rerun     |-> FALSE,    \* that run followed a completed run of the same form
                             \* with no record submitted since that one started
     lost      |-> {},       \* <<fs, objectid>> processed by the pass that aborted last
     logged    |-> {}]       \* <<fs, objectid>> whose row was written to the log

\* Lines 225-250: read the log, connect, resolve the form.
StartRun(f) ==
    /\ UNCHANGED <<datavars, uploadvars>>
    /\ pc = "idle"
    /\ printed' = IF log_file.exists = FALSE THEN "log not found" ELSE "form to download"
    /\ IF ContentGet(f) = None
       THEN \* survey_by_id is None: survey_by_id.layers raises
            /\ pc' = "idle"
            /\ UNCHANGED runvars
            /\ hist' = [hist EXCEPT !.outcome = "aborted", !.form = None,
                                    !.changed = FALSE, !.rerun = FALSE, !.lost = {},
                                    !.start_log = NoFile]
       ELSE /\ pc' = "layer"
            /\ id_form' = f
            /\ max_oid' = LoadMaxOid(log_file)
            /\ df_log_previous' = log_file.rows
            /\ new_objects_control' = <<>>
            /\ indice_fs' = 1
            /\ UNCHANGED <<features, indice, attachments, k>>
            /\ hist' = [hist EXCEPT !.start_log = log_file,
                                    !.form = f, !.outcome = "running", !.changed = FALSE,
                                    !.rerun = /\ hist.outcome = "completed"
                                              /\ hist.form = f
                                              /\ ~hist.changed]
    /\ UNCHANGED <<remote, log_file, files, folders>>

\* Lines 252-264: the next layer/table with attachments is queried.
QueryLayer ==
    /\ UNCHANGED <<datavars, uploadvars>>
    /\ pc = "layer"
    /\ LET rel_fs == RelFs(id_form)
           j == NextWithAttachments(rel_fs, indice_fs)
       IN IF j > Len(rel_fs)
          THEN /\ pc' = "persist"
               /\ indice_fs' = j
               /\ printed' = ""
               /\ UNCHANGED <<features, indice, hist>>
          ELSE /\ max_oid # NaN
               /\ LET fs == rel_fs[j]
                      got == Query(fs, max_oid)
                  IN /\ hist' = [hist EXCEPT !.queries = @ \cup
                                    {[fs |-> fs, bound |-> max_oid, result |-> Oids(got),
                                      present |-> Oids(remote[fs])]}]
                     /\ IF Len(got) = 0
                        THEN /\ printed' = "no new photos"
                             /\ indice_fs' = j + 1
                             /\ pc' = "layer"
                             /\ UNCHANGED <<features, indice>>
                        ELSE /\ printed' = ""
                             /\ indice_fs' = j
                             /\ features' = got
                             /\ indice' = 1
                             /\ pc' = "feature"
    /\ UNCHANGED <<remote, log_file, files, folders, id_form, max_oid, df_log_previous,
                   new_objects_control, attachments, k>>

\* The loop position after the attachments of features[indice] are done.
NextFeature ==
    IF indice < Len(features)
    THEN /\ indice' = indice + 1
         /\ pc' = "feature"
         /\ UNCHANGED <<indice_fs, features>>
    ELSE /\ indice' = 0
         /\ features' = <<>>
         /\ indice_fs' = indice_fs + 1
         /\ pc' = "layer"

\* Lines 268-289: folder, pending log row, attachment list of one feature.
ProcessFeature ==
    /\ UNCHANGED <<datavars, uploadvars>>
    /\ pc = "feature"
    /\ LET fs == RelFs(id_form)[indice_fs]
           feature == features[indice]
           final_folder == FinalFolder(feature.created_date)
           got == GetList(fs, feature.objectid)
       IN /\ printed' = "downloading photo"
          /\ folders' = folders \cup {final_folder}
          /\ new_objects_control' = Append(new_objects_control,
                 [objectid |-> feature.objectid, created_date |-> feature.created_date,
                  id_form |-> id_form, local |-> final_folder])
          /\ hist' = [hist EXCEPT !.processed = @ \cup {<<fs, feature.objectid>>}]
          /\ IF Len(got) > 0
             THEN /\ attachments' = got
                  /\ k' = 1
                  /\ pc' = "attachment"
                  /\ UNCHANGED <<indice_fs, features, indice>>
             ELSE /\ NextFeature
                  /\ UNCHANGED <<attachments, k>>
    /\ UNCHANGED <<remote, log_file, files, id_form, max_oid, df_log_previous>>

\* Mutant of RenameOrWarn: the rename replaces whatever holds the target name.
RenameOrWarn_Replace(fsys, path, final_filename) ==
    [files |-> OsRename(fsys, path, final_filename), printed |-> "downloading photo"]

\* Lines 305-312: rename unless the target exists; gives the disk and the message.
RenameOrWarn(fsys, path, final_filename) ==
    IF PathExists(fsys, final_filename) = FALSE
    THEN [files |-> OsRename(fsys, path, final_filename), printed |-> "downloading photo"]
    ELSE [files |-> fsys, printed |-> "[EXCEPTION] file already exists"]

\* Lines 290-312: one attachment is downloaded and renamed.
DownloadAttachment ==
    /\ UNCHANGED <<datavars, uploadvars>>
    /\ pc = "attachment"
    /\ LET fs == RelFs(id_form)[indice_fs]
           object_oid == features[indice].objectid
           final_folder == FinalFolder(features[indice].created_date)
           object_attachment_path == DownloadPath(final_folder, attachments[k])
           downloaded == WriteFile(files, object_attachment_path, <<fs, object_oid, k>>)
           final_filename == FinalFilename(object_attachment_path, object_oid)
           done == RenameOrWarn(downloaded, object_attachment_path, final_filename)
       IN /\ files' = done.files
          /\ printed' = done.printed
          /\ hist' = [hist EXCEPT !.downloads = @ + 1]
    /\ IF k < Len(attachments)
       THEN /\ k' = k + 1
            /\ pc' = "attachment"
            /\ UNCHANGED <<indice_fs, features, indice, attachments>>
       ELSE /\ k' = 0
            /\ attachments' = <<>>
            /\ NextFeature
    /\ UNCHANGED <<remote, log_file, folders, id_form, max_oid, df_log_previous,
                   new_objects_control>>

\* Lines 315-319: the new rows, created_date formatted
DfLogNew(control) ==
    [i \in DOMAIN control |->
        [control[i] EXCEPT !.created_date = FormatCreatedDate(@)]]

\* Mutant of ConcatLog: the file is overwritten with the new rows alone.
ConcatLog_NewOnly(exists, previous, new) == new

\* Lines 322-323: pd.concat([df_log_previous, df_log_new]) when the log file exists
ConcatLog(exists, previous, new) == IF exists THEN previous \o new ELSE new

\* Lines 314-328: the whole log is written.
PersistLog ==
    /\ UNCHANGED <<datavars, uploadvars>>
    /\ pc = "persist"
    /\ log_file' = LogFile(ConcatLog(log_file.exists, df_log_previous,
                                     DfLogNew(new_objects_control)))
    /\ printed' = "all the photos were downloaded"
    /\ pc' = "idle"
    /\ DropLocals
    /\ hist' = [hist EXCEPT !.outcome = "completed", !.lost = {},
                            !.logged = @ \cup hist.processed,
                            !.queries = {}, !.processed = {}, !.downloads = 0]
    /\ UNCHANGED <<remote, files, folders>>

\* Mutant of RunRaises: the rows gathered so far are saved before the
\* exception leaves get_photos.
RunRaises_SavingLog ==
    /\ UNCHANGED <<datavars, uploadvars>>
    /\ pc \in {"layer", "feature", "attachment", "persist"}
    /\ pc' = "idle"
    /\ printed' = "Traceback"
    /\ log_file' = LogFile(df_log_previous \o DfLogNew(new_objects_control))
    /\ DropLocals
    /\ hist' = [hist EXCEPT !.outcome = "aborted", !.form = None, !.changed = FALSE,
                            !.rerun = FALSE, !.lost = hist.processed,
                            !.start_log = NoFile,
                            !.queries = {}, !.processed = {}, !.downloads = 0]
    /\ UNCHANGED <<remote, files, folders>>

\* An exception of the portal or of the disk in the call the run is about to
\* make (query, get_list, makedirs, download, to_datetime): nothing catches it.
RunRaises ==
    /\ UNCHANGED <<datavars, uploadvars>>
    /\ pc \in {"layer", "feature", "attachment", "persist"}
    /\ pc' = "idle"
    /\ printed' = "Traceback"
    /\ DropLocals
    /\ hist' = [hist EXCEPT !.outcome = "aborted", !.form = None, !.changed = FALSE,
                            !.rerun = FALSE, !.lost = hist.processed,
                            !.start_log = NoFile,
                            !.queries = {}, !.processed = {}, !.downloads = 0]
    /\ UNCHANGED <<remote, log_file, files, folders>>

\* where = 'objectid > nan': the portal rejects the query and fs.query raises.
QueryRejected ==
    /\ UNCHANGED <<datavars, uploadvars>>
    /\ pc = "layer"
    /\ NextWithAttachments(RelFs(id_form), indice_fs) <= Len(RelFs(id_form))
    /\ max_oid = NaN
    /\ pc' = "idle"
    /\ printed' = "Traceback"
    /\ DropLocals
    /\ hist' = [hist EXCEPT !.outcome = "aborted", !.form = None, !.changed = FALSE,
                            !.rerun = FALSE, !.lost = hist.processed,
                            !.start_log = NoFile,
                            !.queries = {}, !.processed = {}, !.downloads = 0]
    /\ UNCHANGED <<remote, log_file, files, folders>>

\* A survey record is submitted to a layer or table of form f1: the portal gives
\* it an objectid above every objectid of that layer/table (deleted records leave
\* gaps). get_photos reads the records only in its queries, so a submission
\* during its other steps is seen exactly as one made just before the next query.
InsertRecord(fs, oid, sub) ==
    /\ pc \in {"idle", "layer"}
    /\ oid > LastOid(fs)
    /\ oid <= MaxOid
    /\ SumLen(remote, AllFs) < MaxRecords
    /\ hasAttachments(fs) \/ sub.atts = <<>>
    /\ remote' = [remote EXCEPT ![fs] = Append(@,
           [objectid |-> oid, created_date |-> sub.created_date, atts |-> sub.atts])]
    /\ hist' = [hist EXCEPT !.changed = (hist.outcome \in {"running", "completed"}),
                            !.rerun = FALSE]
    /\ UNCHANGED <<photovars, datavars, uploadvars>>

-----------------------------------------------------------------------------
(* GetData *)

\* seq[i] of a Python list: positions 0..n-1, and -n..-1 counted from the end
PyInRange(seq, i) == -Len(seq) <= i /\ i < Len(seq)

PyIndex(seq, i) == IF i >= 0 THEN seq[i + 1] ELSE seq[Len(seq) + i + 1]

\* main_layer.query(as_df=True): every row of the layer/table
QueryAll(fs) == remote[fs]

\* os.path.join(self.save_directory, prefix + file_name + '.csv')
CsvName(prefix, file_name) ==
    IF prefix = None THEN file_name \o ".csv" ELSE prefix \o file_name \o ".csv"

\* Mutant of OutOfRange: an empty table is returned instead of the IndexError.
OutOfRange_EmptyTable(call) == [call EXCEPT !.outcome = "return"]

\* collection[position] with position out of range: list index out of range
OutOfRange(call) == [call EXCEPT !.outcome = "IndexError"]

NoCall == [method |-> "none", position |-> 0, save |-> FALSE, file_name |-> None,
           outcome |-> "none", value |-> <<>>]

\* GetData.__init__, lines 68-76
GetDataInit(f, prefix) ==
    /\ gd' = [made |-> TRUE, survey_by_id |-> ContentGet(f), prefix |-> prefix]
    /\ gd_call' = NoCall
    /\ UNCHANGED <<remote, hist, photovars, csv_files, uploadvars>>

\* The body shared by get_main_layer (lines 92-105) and get_table (lines 120-133):
\* collection is survey_by_id.layers or survey_by_id.tables.
FetchAndSave(method, collection, position, save, file_name) ==
    LET call == [method |-> method, position |-> position, save |-> save,
                 file_name |-> file_name, outcome |-> "none", value |-> <<>>]
    IN IF gd.survey_by_id = None
       THEN \* None has no attribute 'layers'
            /\ gd_call' = [call EXCEPT !.outcome = "AttributeError"]
            /\ UNCHANGED csv_files
       ELSE IF ~PyInRange(collection, position)
       THEN /\ gd_call' = OutOfRange(call)
            /\ UNCHANGED csv_files
       ELSE LET df == QueryAll(PyIndex(collection, position))
            IN IF save = TRUE
               THEN IF file_name = None
                    THEN \* None + '.csv'
                         /\ gd_call' = [call EXCEPT !.outcome = "TypeError"]
                         /\ UNCHANGED csv_files
                    ELSE /\ csv_files' = WriteFile(csv_files,
                                                   CsvName(gd.prefix, file_name), df)
                         /\ gd_call' = [call EXCEPT !.outcome = "return", !.value = df]
               ELSE /\ gd_call' = [call EXCEPT !.outcome = "return", !.value = df]
                    /\ UNCHANGED csv_files

get_main_layer(layer_position, save, file_name) ==
    /\ gd.made
    /\ FetchAndSave("get_main_layer",
                    IF gd.survey_by_id = None THEN <<>> ELSE FormLayers(gd.survey_by_id),
                    layer_position, save, file_name)
    /\ UNCHANGED <<remote, hist, photovars, gd, uploadvars>>

get_table(table_position, save, file_name) ==
    /\ gd.made
    /\ FetchAndSave("get_table",
                    IF gd.survey_by_id = None THEN <<>> ELSE FormTables(gd.survey_by_id),
                    table_position, save, file_name)
    /\ UNCHANGED <<remote, hist, photovars, gd, uploadvars>>

-----------------------------------------------------------------------------
(* UploadToPortal *)

Items == {"i1", "i2", "i3"}

\* What the portal holds when the script starts.
InitialItems ==
    [i \in Items |->
        IF i = "i3" THEN [title |-> "dados", type |-> "Feature Service", data |-> "old"]
        ELSE [title |-> "dados", type |-> "CSV", data |-> "old"]]

Matches(query, item_type) ==
    {i \in Items : portal_items[i].title = query /\ portal_items[i].type = item_type}

\* The orders in which a set can be listed
RECURSIVE Orderings(_)
Orderings(S) ==
    IF S = {} THEN {<<>>}
    ELSE UNION {{<<x>> \o rest : rest \in Orderings(S \ {x})} : x \in S}

\* gis_login.content.search(query=file_name, item_type=file_format): the matching
\* items, in an order the portal chooses
Search(query, item_type) == Orderings(Matches(query, item_type))

\* Mutant of FirstItem: the last item found is taken.
FirstItem_Last(found) == found[Len(found)]

\* Line 182: [0] of the search result
FirstItem(found) == found[1]

\* Lines 177-189. found is the portal's answer to the search, updated the
\* portal's answer to data_portal.update(data=file).
upload_to_portal(file_name, file_format, found, updated) ==
    /\ found \in Search(file_name, file_format)
    /\ LET call == [file_name |-> file_name, file_format |-> file_format,
                    found |-> found, updated |-> updated, outcome |-> "none",
                    printed |-> "", tick |-> ~up_call.tick]
       IN IF Len(found) = 0
          THEN \* [0] of an empty list
               /\ up_call' = [call EXCEPT !.outcome = "IndexError"]
               /\ UNCHANGED portal_items
          ELSE LET data_portal == FirstItem(found)
                   file == upload_directory[file_name]
               IN /\ portal_items' =
                        IF updated THEN [portal_items EXCEPT ![data_portal].data = file]
                        ELSE portal_items
                  /\ up_call' = [call EXCEPT !.outcome = "return",
                                   !.printed = IF updated = TRUE
                                               THEN "successfully updated to Portal"
                                               ELSE "ERROR: not saved on Portal"]
    /\ UNCHANGED <<remote, hist, photovars, datavars, upload_directory>>

FileNames == {"dados", "outro"}

FileData == {"new1", "new2"}

\* The pipeline rewrites a CSV in the upload directory.
WriteLocalCsv(file_name, data) ==
    /\ upload_directory[file_name] # data
    /\ upload_directory' = [upload_directory EXCEPT ![file_name] = data]
    /\ UNCHANGED <<remote, hist, photovars, datavars, portal_items, up_call>>

\* The owner of an item renames it on the portal.
EditItem(i, title) ==
    /\ portal_items[i].title # title
    /\ portal_items' = [portal_items EXCEPT ![i].title = title]
    /\ UNCHANGED <<remote, hist, photovars, datavars, upload_directory, up_call>>

-----------------------------------------------------------------------------

Init ==
    /\ remote = [fs \in AllFs |-> <<>>]
    /\ log_file = NoFile
    /\ files = <<>>
    /\ folders = {}
    /\ pc = "idle"
    /\ IdleLocals
    /\ printed = ""
    /\ hist = HistInit
    /\ gd = [made |-> FALSE, survey_by_id |-> None, prefix |-> None]
    /\ gd_call = NoCall
    /\ csv_files = <<>>
    /\ portal_items = InitialItems
    /\ upload_directory = [n \in FileNames |-> "new1"]
    /\ up_call = [file_name |-> None, file_format |-> "", found |-> <<>>,
                  updated |-> FALSE, outcome |-> "none", printed |-> "", tick |-> FALSE]

\* get_photos runs against a form that receives records. L2 has no attachments
\* and get_photos never reads its records, so none are submitted to it here.
Next ==
    \/ \E f \in FormIds : StartRun(f)
    \/ QueryLayer
    \/ QueryRejected
    \/ ProcessFeature
    \/ DownloadAttachment
    \/ PersistLog
    \/ RunRaises
    \/ \E fs \in {"L1", "T1"}, oid \in 1..MaxOid, sub \in Submissions :
          InsertRecord(fs, oid, sub)

Spec == Init /\ [][Next]_vars

\* GetData on a form whose layers and tables receive records
Positions == -3 .. 3

SaveRequests ==
    { [save |-> FALSE, file_name |-> None],
      [save |-> TRUE, file_name |-> None],
      [save |-> TRUE, file_name |-> "out"] }

NextData ==
    \/ \E f \in FormIds, prefix \in {None, "p_"} : GetDataInit(f, prefix)
    \/ \E p \in Positions, r \in SaveRequests : get_main_layer(p, r.save, r.file_name)
    \/ \E p \in Positions, r \in SaveRequests : get_table(p, r.save, r.file_name)
    \/ \E fs \in AllFs :
          InsertRecord(fs, LastOid(fs) + 1, [created_date |-> 1500, atts |-> <<>>])

SpecData == Init /\ [][NextData]_vars

\* UploadToPortal against a catalog whose items are renamed and retyped
NextUpload ==
    \/ \E n \in FileNames, t \in {"CSV", "Feature Service"} :
          \E found \in Search(n, t), updated \in BOOLEAN :
             upload_to_portal(n, t, found, updated)
    \/ \E n \in FileNames, d \in FileData : WriteLocalCsv(n, d)
    \/ \E i \in Items, title \in FileNames : EditItem(i, title)

SpecUpload == Init /\ [][NextUpload]_vars

-----------------------------------------------------------------------------
(* The claims about GetPhotos.get_photos *)

OidsOf(log) == {log.rows[i].objectid : i \in DOMAIN log.rows}

\* The cursor of a log as the documentation defines it: 0 for an absent log,
\* else the greatest objectid of its rows (a log without rows has none).
HasCursor(log) == ~log.exists \/ log.rows # <<>>

Cursor(log) ==
    IF ~log.exists THEN 0
    ELSE CHOOSE m \in OidsOf(log) : \A o \in OidsOf(log) : o <= m

AttachmentFs(f) == {fs \in Range(RelFs(f)) : hasAttachments(fs)}

\* C1: a run that starts from a log with maximum objectid M (0 without a log)
\* queries only layers/tables with attachments, each with the bound M, gets
\* exactly the records above M, and processes exactly those.
C1_OnlyAboveCursor ==
    (hist.outcome = "running" /\ HasCursor(hist.start_log)) =>
        LET M == Cursor(hist.start_log)
        IN /\ \A q \in hist.queries :
                /\ hasAttachments(q.fs)
                /\ q.bound = M
                /\ q.result = {o \in q.present : o > M}
           /\ hist.processed \subseteq
                 UNION {{<<q.fs, o>> : o \in q.result} : q \in hist.queries}
           /\ pc = "persist" =>
                 /\ {q.fs : q \in hist.queries} = AttachmentFs(id_form)
                 /\ hist.processed =
                       UNION {{<<q.fs, o>> : o \in q.result} : q \in hist.queries}

\* C1 witness: records 1 and 2 in a layer, a log whose only row is objectid 1,
\* and the run has fetched exactly record 2.
C1_Witness ==
    /\ pc = "persist"
    /\ OidsOf(hist.start_log) = {1}
    /\ \E q \in hist.queries : q.present = {1, 2} /\ q.result = {2}
    /\ hist.processed # {}

\* C2: a run that follows a completed run of the same form, with no record
\* submitted since that one started, downloads nothing, and when it completes
\* the log has the rows it had.
C2_RerunChangesNothing ==
    /\ hist.rerun => hist.downloads = 0 /\ hist.processed = {}
    /\ (hist.rerun /\ hist.outcome = "completed") => log_file = hist.start_log

\* C2 witness: such a re-run has completed, over a log with rows, on a form
\* that holds a record with an attachment.
C2_Witness ==
    /\ hist.rerun
    /\ hist.outcome = "completed"
    /\ pc = "idle"
    /\ log_file.rows # <<>>
    /\ \E fs \in AttachmentFs(hist.form) :
          \E i \in DOMAIN remote[fs] : remote[fs][i].atts # <<>>

\* C3: while a pass runs the log file is as the pass found it, a pass that
\* aborts leaves it so, and the pass after an aborted one gets, from each
\* layer/table it queries, the records the aborted pass had processed there.
C3_AbortKeepsLog ==
    /\ [](hist.outcome = "running" => log_file = hist.start_log)
    /\ [][(hist.outcome = "running" /\ hist'.outcome = "aborted")
              => log_file' = hist.start_log]_vars
    /\ [](hist.outcome = "running" =>
              \A q \in hist.queries : \A x \in hist.lost :
                  x[1] = q.fs => x[2] \in q.result)

\* C3 witness: a pass had processed a record and aborted, no row of it is in
\* the log, and the next pass has been handed that record again.
C3_Witness ==
    /\ hist.outcome = "running"
    /\ hist.lost # {}
    /\ hist.lost \cap hist.logged = {}
    /\ \E q \in hist.queries : \E x \in hist.lost : x[1] = q.fs /\ x[2] \in q.result

\* The step in which a run completes
Completes == pc = "persist" /\ hist'.outcome = "completed"

\* C4: no step removes, changes or reorders a row of the log, and a run that
\* completes writes the rows it found followed by one row per record it
\* processed, in processing order.
C4_LogGrowsByAppending ==
    [][/\ log_file.exists => log_file'.exists
       /\ IsPrefix(log_file.rows, log_file'.rows)
       /\ Completes =>
            /\ log_file'.exists
            /\ Len(log_file'.rows) = Len(log_file.rows) + Len(new_objects_control)
            /\ \A i \in DOMAIN new_objects_control :
                  LET row == log_file'.rows[Len(log_file.rows) + i]
                      new == new_objects_control[i]
                  IN /\ row.objectid = new.objectid
                     /\ row.id_form = new.id_form
                     /\ row.local = new.local
                     /\ row.created_date = FormatCreatedDate(new.created_date)]_vars

\* C4 witness: a run found a log with rows and completed having added rows.
C4_Witness ==
    /\ hist.outcome = "completed"
    /\ hist.start_log.rows # <<>>
    /\ Len(log_file.rows) > Len(hist.start_log.rows)
    /\ IsPrefix(hist.start_log.rows, log_file.rows)

\* The step that downloads attachments[k]
Downloads == pc = "attachment" /\ hist'.downloads = hist.downloads + 1

DownloadedPath ==
    DownloadPath(FinalFolder(features[indice].created_date), attachments[k])

RenameTarget == FinalFilename(DownloadedPath, features[indice].objectid)

\* C5: when the name with -oid_{objectid} inserted is already taken as an
\* attachment is downloaded, the file of that name is left as it is, the
\* download stays under its own name, the warning is printed and the loop
\* goes on with the next attachment, record or layer.
C5_ExistingTargetUntouched ==
    [][(/\ Downloads
        /\ RenameTarget # DownloadedPath
        /\ PathExists(files, RenameTarget))
       => /\ PathExists(files', RenameTarget)
          /\ files'[RenameTarget] = files[RenameTarget]
          /\ PathExists(files', DownloadedPath)
          /\ files'[DownloadedPath] =
                <<RelFs(id_form)[indice_fs], features[indice].objectid, k>>
          /\ printed' = "[EXCEPTION] file already exists"
          /\ pc' \in {"attachment", "feature", "layer"}
          /\ (k < Len(attachments) => pc' = "attachment" /\ k' = k + 1)]_vars

\* C5 witness: the warning was printed for a .jpg download, which stays on disk
\* under its own name beside the file that holds the target name.
C5_Witness ==
    /\ printed = "[EXCEPTION] file already exists"
    /\ \E p \in DOMAIN files :
          /\ p[Len(p)] = ".jpg"
          /\ p[Len(p) - 1] = "a"
          /\ PathExists(files, FinalFilename(p, files[p][2]))
          /\ files[FinalFilename(p, files[p][2])] # files[p]

\* {original-name}-oid_{objectid}{ext}: the suffix goes before the last piece
NamedWithOid(path, oid) ==
    SubSeq(path, 1, Len(path) - 1) \o <<OidSuffix(oid), path[Len(path)]>>

\* C6: an attachment downloaded while the name with -oid_{objectid} before the
\* extension is free ends up under that name, and nothing stays under the
\* name it was downloaded with, whatever the extension.
C6_RenamedWhateverExtension ==
    [][(/\ Downloads
        /\ ~PathExists(files, NamedWithOid(DownloadedPath, features[indice].objectid)))
       => /\ PathExists(files', NamedWithOid(DownloadedPath, features[indice].objectid))
          /\ ~PathExists(files', DownloadedPath)]_vars

\* C9: when a run completes, every record that was in a layer/table with
\* attachments when the run queried it has its row in the log.
C9_NoRecordSkipped ==
    [][Completes =>
          \A q \in hist.queries : \A o \in q.present : <<q.fs, o>> \in hist'.logged]_vars

\* C10: a log file that exists has a row, and the cursor a run loads from it is
\* a number >= 0.
C10_CursorDefined ==
    /\ log_file.exists => Len(log_file.rows) >= 1
    /\ max_oid >= 0

-----------------------------------------------------------------------------
(* The claims about GetData and UploadToPortal *)

\* The collection a GetData call indexes: the layers or the tables of the form
Addressed(call) ==
    IF gd.survey_by_id = None THEN <<>>
    ELSE IF call.method = "get_main_layer" THEN FormLayers(gd.survey_by_id)
    ELSE FormTables(gd.survey_by_id)

Raised(call) == call.outcome \in {"AttributeError", "IndexError", "TypeError"}

\* C7 as stated: a call on a form that does not resolve, or with a position
\* that is not one of 0 .. n-1 for a collection of n layers/tables, raises,
\* returns no table and writes no CSV file.
C7_BadPositionRaises ==
    [][(/\ gd_call'.method # "none"
        /\ \/ gd'.survey_by_id = None
           \/ gd_call'.position \notin 0 .. (Len(Addressed(gd_call')) - 1))
       => /\ Raised(gd_call')
          /\ gd_call'.value = <<>>
          /\ csv_files' = csv_files]_vars

\* C7 as amended: a call on a form that does not resolve, or with a position p
\* with p >= n or p < -n for a collection of n layers/tables, raises, returns
\* no table and writes no CSV file.
C7_UnresolvablePositionRaises ==
    [][(/\ gd_call'.method # "none"
        /\ \/ gd'.survey_by_id = None
           \/ gd_call'.position >= Len(Addressed(gd_call'))
           \/ gd_call'.position < -Len(Addressed(gd_call')))
       => /\ Raised(gd_call')
          /\ gd_call'.value = <<>>
          /\ csv_files' = csv_files]_vars

\* C7 witness: get_main_layer at position 2 of the two layers of f1, asked to
\* save, has raised IndexError and the directory holds no file.
C7_Witness ==
    /\ gd.survey_by_id = "f1"
    /\ gd_call.method = "get_main_layer"
    /\ gd_call.position = 2
    /\ gd_call.save
    /\ gd_call.file_name = "out"
    /\ gd_call.outcome = "IndexError"
    /\ DOMAIN csv_files = {}
    /\ remote["L1"] # <<>>

\* C8: a call whose search finds nothing raises and leaves every item as it
\* was; a call whose search finds items returns, leaves every item but the
\* first found as it was, gives the first found the local file's data when the
\* portal reports success and leaves it as it was, printing the error, when
\* the portal reports failure.
C8_FirstMatchOnly ==
    [][up_call'.tick # up_call.tick =>
          IF up_call'.found = <<>>
          THEN /\ up_call'.outcome = "IndexError"
               /\ portal_items' = portal_items
          ELSE /\ up_call'.outcome = "return"
               /\ \A i \in Items \ {up_call'.found[1]} : portal_items'[i] = portal_items[i]
               /\ up_call'.updated =>
                     portal_items'[up_call'.found[1]] =
                        [portal_items[up_call'.found[1]] EXCEPT
                            !.data = upload_directory[up_call'.file_name]]
               /\ ~up_call'.updated =>
                     /\ portal_items' = portal_items
                     /\ up_call'.printed = "ERROR: not saved on Portal"]_vars

\* C8 witness: the search found two items, the portal reported success, and the
\* first found holds the local file's data while the second does not.
C8_Witness ==
    /\ up_call.outcome = "return"
    /\ Len(up_call.found) = 2
    /\ up_call.updated
    /\ portal_items[up_call.found[1]].data = upload_directory[up_call.file_name]
    /\ portal_items[up_call.found[2]].data # upload_directory[up_call.file_name]

====
